---- MODULE Spec2Model ----
(***************************************************************************)
(* A model of asphalt.sqlalchemy.component.SQLAlchemyComponent: the        *)
(* constructor (engine resolution, session options), start / shutdown, and *)
(* the per-context session finalizers of create_session and                *)
(* create_async_session.  Python dicts are functions from key strings to   *)
(* values; Python booleans stored in dicts are the strings "True" and      *)
(* "False"; an optional dict is a record [none, d].                        *)
(***************************************************************************)
EXTENDS Integers, Sequences, FiniteSets, TLC

\* ------------------------------------------------------------------ bounds
MaxSessions == 2
MaxContexts == 1

\* ------------------------------------------------------- dicts and options
EmptyDict == << >>

SetItem(d, k, v) == [x \in (DOMAIN d) \cup {k} |-> IF x = k THEN v ELSE d[x]]

SetDefault(d, k, v) == IF k \in DOMAIN d THEN d ELSE SetItem(d, k, v)

NoneDict == [none |-> TRUE, d |-> EmptyDict]

SomeDict(d) == [none |-> FALSE, d |-> d]

\* `x or {}`: None and the empty dict are both falsy
OrEmpty(a) == IF a.none \/ DOMAIN a.d = {} THEN EmptyDict ELSE a.d

\* every dict over a subset of the keys of vals, vals[k] the values key k takes
DictsOver(vals) ==
    UNION { { f \in [D -> UNION { vals[k] : k \in DOMAIN vals }] :
                \A k \in D : f[k] \in vals[k] } : D \in SUBSET (DOMAIN vals) }

\* ------------------------------------------------------------------ inputs
NoUrl == [form |-> "None", dialect |-> "None", driver |-> "None"]

\* dialect+driver pairs: the driver decides what create_async_engine does
Drivers ==
    { <<"sqlite", "pysqlite">>, <<"sqlite", "aiosqlite">>,
      <<"postgresql", "psycopg2">>, <<"postgresql", "asyncpg">>,
      <<"postgresql", "unavailable">> }

Urls ==
    {NoUrl} \cup
    { [form |-> f, dialect |-> p[1], driver |-> p[2]] :
        f \in {"str", "dict", "URL"}, p \in Drivers }

NoBind == [kind |-> "None", engine |-> "None", origin |-> "None"]

\* a supplied bind and what its .engine attribute is: the engine of a
\* connection, the engine itself, and for an AsyncEngine either itself or the
\* synchronous Engine it wraps (the attribute is the library's, not this
\* component's, so both are inputs)
Binds ==
    { NoBind,
      [kind |-> "Connection", engine |-> "Engine", origin |-> "supplied"],
      [kind |-> "AsyncConnection", engine |-> "AsyncEngine", origin |-> "supplied"],
      [kind |-> "Engine", engine |-> "Engine", origin |-> "supplied"],
      [kind |-> "AsyncEngine", engine |-> "AsyncEngine", origin |-> "supplied"],
      [kind |-> "AsyncEngine", engine |-> "Engine", origin |-> "supplied"] }

SessionArgsIn ==
    {NoneDict} \cup
    { SomeDict(d) :
        d \in DictsOver([class_ |-> {"Session", "AsyncSession"},
                         expire_on_commit |-> {"True", "False"},
                         future |-> {"False"}]) }

ConnectArgsIn ==
    DictsOver([check_same_thread |-> {"True", "False"}, timeout |-> {"5"}])

EngineArgsIn ==
    {NoneDict, SomeDict(EmptyDict), SomeDict([echo |-> "True"])} \cup
    { SomeDict([connect_args |-> c]) : c \in ConnectArgsIn }

NoPool == [form |-> "None", cls |-> "None"]

PoolsIn == { NoPool, [form |-> "str", cls |-> "NullPool"],
             [form |-> "obj", cls |-> "NullPool"] }

\* the constructor's keyword arguments
Config(url, bind, engine_args, session_args, workers, poolclass) ==
    [url |-> url, bind |-> bind, engine_args |-> engine_args,
     session_args |-> session_args, commit_executor_workers |-> workers,
     poolclass |-> poolclass]

AllConfigs ==
    { Config(u, b, ea, sa, 1, pc) :
        u \in Urls, b \in Binds, ea \in EngineArgsIn, sa \in SessionArgsIn,
        pc \in PoolsIn }

\* ------------------------------------------------------------- constructor
NoError == "None"

\* session_args = session_args or {}; the two options that are always set
ForcedSessionArgsSetDefault(session_args) ==
    SetDefault(SetDefault(OrEmpty(session_args), "expire_on_commit", "False"),
               "future", "True")

ForcedSessionArgs(session_args) ==
    SetItem(SetItem(OrEmpty(session_args), "expire_on_commit", "False"),
            "future", "True")

\* URL.create(**url) / make_url(url): a dict or a string becomes a URL object
\* with the same dialect and driver; a URL object is passed through
NormalizeUrl(url) ==
    IF url.form \in {"dict", "str"}
    THEN [form |-> "URL", dialect |-> url.dialect, driver |-> url.driver]
    ELSE url

\* the sqlite hack: connect_args.setdefault("check_same_thread", False)
SqliteEngineArgsOverride(url, engine_args) ==
    IF url.dialect = "sqlite"
    THEN LET ea == SetDefault(engine_args, "connect_args", EmptyDict)
         IN  SetItem(ea, "connect_args",
                     SetItem(ea["connect_args"], "check_same_thread", "False"))
    ELSE engine_args

SqliteEngineArgs(url, engine_args) ==
    IF url.dialect = "sqlite"
    THEN LET ea == SetDefault(engine_args, "connect_args", EmptyDict)
         IN  SetItem(ea, "connect_args",
                     SetDefault(ea["connect_args"], "check_same_thread", "False"))
    ELSE engine_args

\* resolve_reference(poolclass) when poolclass is a string
ResolvePool(poolclass) ==
    IF poolclass.form = "str"
    THEN [form |-> "obj", cls |-> poolclass.cls]
    ELSE poolclass

\* what the configured driver supports
DriverKind(driver) ==
    CASE driver \in {"aiosqlite", "asyncpg"} -> "async"
      [] driver \in {"pysqlite", "psycopg2"} -> "sync"
      [] OTHER -> "broken"

EngineCall(fn, url, pool, engine_args) ==
    [fn |-> fn, args |-> [url |-> url, poolclass |-> pool, kw |-> engine_args]]

CreatedEngine(kind) == [kind |-> kind, engine |-> kind, origin |-> "created"]

\* create_async_engine: an AsyncEngine, InvalidRequestError for a driver
\* without asynchronous support, any other error for a driver that fails
create_async_engine(url, pool, engine_args) ==
    CASE DriverKind(url.driver) = "async" ->
            [err |-> NoError, obj |-> CreatedEngine("AsyncEngine")]
      [] DriverKind(url.driver) = "sync" ->
            [err |-> "InvalidRequestError", obj |-> NoBind]
      [] OTHER -> [err |-> "OtherError", obj |-> NoBind]

create_engine(url, pool, engine_args) ==
    IF DriverKind(url.driver) = "broken"
    THEN [err |-> "OtherError", obj |-> NoBind]
    ELSE [err |-> NoError, obj |-> CreatedEngine("Engine")]

\* try: create_async_engine(...) except InvalidRequestError: create_engine(...)
\* with the result [err, obj, calls]
BuildEngineCatchAll(url, pool, engine_args) ==
    LET a == create_async_engine(url, pool, engine_args)
        ca == EngineCall("create_async_engine", url, pool, engine_args)
        s == create_engine(url, pool, engine_args)
        cs == EngineCall("create_engine", url, pool, engine_args)
    IN  IF a.err # NoError
        THEN [err |-> s.err, obj |-> s.obj, calls |-> <<ca, cs>>]
        ELSE [err |-> a.err, obj |-> a.obj, calls |-> <<ca>>]

BuildEngineSyncFirst(url, pool, engine_args) ==
    LET s == create_engine(url, pool, engine_args)
        cs == EngineCall("create_engine", url, pool, engine_args)
    IN  [err |-> s.err, obj |-> s.obj, calls |-> <<cs>>]

BuildEngine(url, pool, engine_args) ==
    LET a == create_async_engine(url, pool, engine_args)
        ca == EngineCall("create_async_engine", url, pool, engine_args)
        s == create_engine(url, pool, engine_args)
        cs == EngineCall("create_engine", url, pool, engine_args)
    IN  IF a.err = "InvalidRequestError"
        THEN [err |-> s.err, obj |-> s.obj, calls |-> <<ca, cs>>]
        ELSE [err |-> a.err, obj |-> a.obj, calls |-> <<ca>>]

\* if isinstance(self.engine, AsyncEngine): setdefault("class_", AsyncSession)
SessionClassArgsNever(engine, session_args) == session_args

SessionClassArgs(engine, session_args) ==
    IF engine = "AsyncEngine"
    THEN SetDefault(session_args, "class_", "AsyncSession")
    ELSE session_args

SessionmakerCall(bind, session_args) ==
    [fn |-> "sessionmaker", args |-> [bind |-> bind, kw |-> session_args]]

HacksCall(engine) == [fn |-> "apply_sqlite_hacks", args |-> [engine |-> engine]]

Raised(err, calls) ==
    [err |-> err, engine |-> "None", bind |-> NoBind,
     sessionmaker |-> EmptyDict, calls |-> calls]

Constructed(engine, bind, session_args, calls) ==
    LET sa == SessionClassArgs(engine, session_args)
    IN  [err |-> NoError, engine |-> engine, bind |-> bind, sessionmaker |-> sa,
         calls |-> Append(calls, SessionmakerCall(bind, sa))]

\* `if bind:` (a connection or an engine object is truthy)
BindSuppliedOnlyWithoutUrl(c) == c.bind.kind # "None" /\ c.url.form = "None"

BindSupplied(c) == c.bind.kind # "None"

\* `elif url is None: raise TypeError(...)`
UrlMissingNever(c) == FALSE

UrlMissing(c) == c.url.form = "None"

\* SQLAlchemyComponent.__init__: the attributes it sets (engine, bind,
\* sessionmaker), the error it raises, and the external constructors it calls
ComponentInit(c) ==
    LET session_args == ForcedSessionArgs(c.session_args)
        url == NormalizeUrl(c.url)
        engine_args == SqliteEngineArgs(url, OrEmpty(c.engine_args))
        b == BuildEngine(url, ResolvePool(c.poolclass), engine_args)
        hacks == IF url.dialect = "sqlite" THEN <<HacksCall(b.obj.kind)>> ELSE << >>
    IN  IF BindSupplied(c)
        THEN Constructed(c.bind.engine, c.bind, session_args, << >>)
        ELSE IF UrlMissing(c)
        THEN Raised("TypeError", << >>)
        ELSE IF b.err # NoError
        THEN Raised(b.err, b.calls)
        ELSE Constructed(b.obj.kind, b.obj, session_args, b.calls \o hacks)

\* ------------------------------------------------------------------- state
VARIABLES
    cfg,        \* the constructor's arguments
    status,     \* "new", "constructed", "raised", "started"
    self,       \* what __init__ produced: err, engine, bind, sessionmaker, calls
    published,  \* the resources and the session factory start added to its context
    executor,   \* self.commit_executor: [state, workers]
    ctx,        \* the host's contexts: 0 is the context start is given, the
                \* others are the contexts of units of work
    sessions,   \* every session a factory call produced, in creation order
    disposed,   \* the dispose calls made on the bind, in order
    startLog    \* what start did before its yield, in order

vars == <<cfg, status, self, published, executor, ctx, sessions, disposed, startLog>>

Contexts == 0 .. MaxContexts

NoExecutor == [state |-> "none", workers |-> 0]

NewContext(state) ==
    [state |-> state, exc |-> "None", callbacks |-> << >>, pending |-> << >>,
     current |-> "None"]

InitWith(configs) ==
    /\ cfg \in configs
    /\ status = "new"
    /\ self = Raised(NoError, << >>)
    /\ published = {}
    /\ executor = NoExecutor
    /\ ctx = [c \in Contexts |-> NewContext("open")]
    /\ sessions = << >>
    /\ disposed = << >>
    /\ startLog = << >>

\* the component is constructed from its configuration
Construct ==
    /\ status = "new"
    /\ self' = ComponentInit(cfg)
    /\ status' = IF self'.err = NoError THEN "constructed" ELSE "raised"
    /\ UNCHANGED <<cfg, published, executor, ctx, sessions, disposed, startLog>>

\* ctx.add_teardown_callback(callback)
AddTeardown(c, cb) == [ctx EXCEPT ![c].callbacks = Append(@, cb)]

\* which session factory start publishes
PublishedFactory(engine) ==
    IF engine = "AsyncEngine" THEN "create_async_session" ELSE "create_session"

\* what start does before its yield, in order
StartStepsExecutorAlways(engine) ==
    <<"add_resource engine", "add_resource sessionmaker",
      "ThreadPoolExecutor", "add_teardown_callback shutdown",
      "add_resource_factory " \o PublishedFactory(engine)>>

StartSteps(engine) ==
    <<"add_resource engine", "add_resource sessionmaker">> \o
    (IF engine = "AsyncEngine"
     THEN << >>
     ELSE <<"ThreadPoolExecutor", "add_teardown_callback shutdown">>) \o
    <<"add_resource_factory " \o PublishedFactory(engine)>>

HasStep(steps, x) == \E i \in 1 .. Len(steps) : steps[i] = x

\* the teardown callbacks start leaves on its context: the shutdown of the
\* commit executor when start made one, then the rest of start, which
\* context_teardown registers when start yields
StartCallbacksShutdownLast(steps) ==
    << <<"dispose", 0>> >> \o
    (IF HasStep(steps, "add_teardown_callback shutdown")
     THEN << <<"shutdown", 0>> >> ELSE << >>)

StartCallbacks(steps) ==
    (IF HasStep(steps, "add_teardown_callback shutdown")
     THEN << <<"shutdown", 0>> >> ELSE << >>) \o
    << <<"dispose", 0>> >>

\* start, up to its yield: the resources, the commit executor and its
\* shutdown callback in synchronous mode, the session factory; then
\* context_teardown registers the rest of start as a teardown callback
Start ==
    /\ status = "constructed"
    /\ ctx[0].state = "open"
    /\ status' = "started"
    /\ startLog' = StartSteps(self.engine)
    /\ published' = {"engine", "sessionmaker", PublishedFactory(self.engine)}
    /\ executor' = IF HasStep(startLog', "ThreadPoolExecutor")
                   THEN [state |-> "running",
                         workers |-> cfg.commit_executor_workers]
                   ELSE executor
    /\ ctx' = [ctx EXCEPT ![0].callbacks = @ \o StartCallbacks(startLog')]
    /\ UNCHANGED <<cfg, self, sessions, disposed>>

\* ---------------------------------------------------------------- sessions
Reverse(q) == [i \in 1 .. Len(q) |-> q[Len(q) + 1 - i]]

Count(q, x) == Cardinality({ i \in 1 .. Len(q) : q[i] = x })

SessionIds == 1 .. Len(sessions)

\* session = self.sessionmaker(info={"ctx": ctx}), before its context ends
NewSession(c, factory) ==
    [ctx |-> c, async |-> (factory = "create_async_session"), inTx |-> FALSE,
     info_ctx |-> TRUE, fpc |-> "registered", exception |-> "unset",
     txAtFin |-> "unset", trace |-> << >>, pendingErr |-> NoError,
     err |-> NoError, thread |-> "None"]

\* the teardown callbacks one factory call adds to the context
SessionCallbacksTwice(id) == << <<"session", id>>, <<"session", id>> >>

SessionCallbacks(id) == << <<"session", id>> >>

\* the contexts other than the component's own are interchangeable: they
\* request their first session in the order of their numbers
InOrder(c) == IF c <= 1 THEN TRUE ELSE ctx[c - 1].callbacks # << >>

\* the published factory is called for an open context: create_session or
\* create_async_session makes the session and registers teardown_session
CreateSession(c) ==
    /\ status = "started"
    /\ ctx[c].state = "open"
    /\ InOrder(c)
    /\ Len(sessions) < MaxSessions
    /\ LET factory == PublishedFactory(self.engine)
           id == Len(sessions) + 1
       IN  /\ sessions' = Append(sessions, NewSession(c, factory))
           /\ ctx' = [ctx EXCEPT ![c].callbacks = @ \o SessionCallbacks(id)]
    /\ UNCHANGED <<cfg, status, self, published, executor, disposed, startLog>>

\* the application uses the session: a transaction begins
Begin(s) ==
    /\ sessions[s].fpc = "registered"
    /\ ctx[sessions[s].ctx].state = "open"
    /\ ~sessions[s].inTx
    /\ sessions' = [sessions EXCEPT ![s].inTx = TRUE]
    /\ UNCHANGED <<cfg, status, self, published, executor, ctx, disposed, startLog>>

\* ------------------------------------------------------------ the host
\* the event loop is blocked while commit_executor.shutdown() waits
LoopBlocked == \E c \in Contexts : ctx[c].current = "shutdown"

\* the contexts the component can observe: the one passed to start, and
\* those a session was requested for
InUse(c) == IF c = 0 THEN TRUE ELSE ctx[c].callbacks # << >>

\* a context ends, with or without an exception; its teardown callbacks
\* will run one at a time in the reverse of the order they were added
CloseContext(c, exc) ==
    /\ ctx[c].state = "open"
    /\ InUse(c)
    /\ ~LoopBlocked
    /\ ctx' = [ctx EXCEPT ![c].state = IF ctx[c].callbacks = << >> THEN "closed" ELSE "closing",
                          ![c].exc = exc,
                          ![c].pending = Reverse(ctx[c].callbacks)]
    /\ UNCHANGED <<cfg, status, self, published, executor, sessions, disposed, startLog>>

\* the callback at the head of pending of context c, when none is in progress
NextCallback(c) ==
    IF ctx[c].state = "closing" /\ ctx[c].current = "None" /\ ctx[c].pending # << >>
    THEN Head(ctx[c].pending)
    ELSE <<"None", 0>>

\* the callback in progress on context c has ended
Popped(c) ==
    [ctx EXCEPT ![c].pending = Tail(@),
                ![c].current = "None",
                ![c].state = IF Len(ctx[c].pending) = 1 THEN "closed" ELSE @]

InProgress(c, what) == [ctx EXCEPT ![c].current = what]

\* sessions whose finalizer is running on a worker of the commit executor
OnWorker ==
    { s \in SessionIds : sessions[s].thread = "worker" /\ sessions[s].fpc \in {"try", "close"} }

Queued == { s \in SessionIds : sessions[s].fpc = "queued" }

\* pass_exception=True: the exception that ended the context, or None
PassedExceptionOfAnyContext(c) ==
    IF \E d \in Contexts : ctx[d].exc # "None" THEN "Error" ELSE "None"

PassedException(c) == ctx[c].exc

\* where the body of teardown_session runs: create_session wraps it with
\* @executor(self.commit_executor), create_async_session makes a coroutine
FinalizerRunsOnLoop(async) == "loop"

FinalizerRunsOn(async) == IF async THEN "loop" ELSE "worker"

\* the host calls teardown_session(exception).  The coroutine starts on the
\* event loop; the wrapped function is submitted to the commit executor,
\* which refuses once it is shut down
CallFinalizer(c) ==
    /\ NextCallback(c)[1] = "session"
    /\ ~LoopBlocked
    /\ LET s == NextCallback(c)[2]
       IN  IF FinalizerRunsOn(sessions[s].async) = "loop"
           THEN /\ sessions' = [sessions EXCEPT ![s].fpc = "try",
                                                ![s].thread = "loop",
                                                ![s].exception = PassedException(c)]
                /\ ctx' = InProgress(c, "session")
           ELSE IF executor.state = "running"
           THEN /\ sessions' = [sessions EXCEPT ![s].fpc = "queued",
                                                ![s].exception = PassedException(c)]
                /\ ctx' = InProgress(c, "session")
           ELSE /\ sessions' = [sessions EXCEPT ![s].fpc = "rejected",
                                                ![s].exception = PassedException(c),
                                                ![s].err = "RuntimeError"]
                /\ ctx' = Popped(c)
    /\ UNCHANGED <<cfg, status, self, published, executor, disposed, startLog>>

\* a free worker of the commit executor takes a queued finalizer
WorkerStart(s) ==
    /\ sessions[s].fpc = "queued"
    /\ Cardinality(OnWorker) < executor.workers
    /\ sessions' = [sessions EXCEPT ![s].fpc = "try", ![s].thread = "worker"]
    /\ UNCHANGED <<cfg, status, self, published, executor, ctx, disposed, startLog>>

\* a finalizer step needs the event loop when it is a coroutine
CanStep(s, at) ==
    /\ sessions[s].fpc = at
    /\ sessions[s].thread = "loop" => ~LoopBlocked

\* what the try block calls: commit, rollback or nothing
TryCallAlwaysCommit(inTx, exception) ==
    IF inTx THEN "commit" ELSE "none"

TryCallIgnoringTransaction(inTx, exception) ==
    IF exception = "None" THEN "commit" ELSE "rollback"

TryCall(inTx, exception) ==
    IF inTx
    THEN IF exception = "None" THEN "commit" ELSE "rollback"
    ELSE "none"

\* the try block of teardown_session; commit or rollback returns or raises
FinTryNoFinally(s, raises) ==
    /\ CanStep(s, "try")
    /\ LET ses == sessions[s]
           call == TryCall(ses.inTx, ses.exception)
       IN  /\ raises => call # "none"
           /\ sessions' = [sessions EXCEPT
                ![s].txAtFin = IF ses.inTx THEN "True" ELSE "False",
                ![s].trace = IF call = "none" THEN @ ELSE Append(@, call),
                ![s].inTx = IF call # "none" /\ ~raises THEN FALSE ELSE @,
                ![s].pendingErr = IF raises THEN call \o "Error" ELSE NoError,
                ![s].err = IF raises THEN call \o "Error" ELSE @,
                ![s].fpc = IF raises THEN "done" ELSE "close"]
    /\ ctx' = IF raises THEN Popped(sessions[s].ctx) ELSE ctx
    /\ UNCHANGED <<cfg, status, self, published, executor, disposed, startLog>>

FinTry(s, raises) ==
    /\ CanStep(s, "try")
    /\ LET ses == sessions[s]
           call == TryCall(ses.inTx, ses.exception)
       IN  /\ raises => call # "none"
           /\ sessions' = [sessions EXCEPT
                ![s].txAtFin = IF ses.inTx THEN "True" ELSE "False",
                ![s].trace = IF call = "none" THEN @ ELSE Append(@, call),
                ![s].inTx = IF call # "none" /\ ~raises THEN FALSE ELSE @,
                ![s].pendingErr = IF raises THEN call \o "Error" ELSE NoError,
                ![s].fpc = "close"]
    /\ UNCHANGED <<cfg, status, self, published, executor, ctx, disposed, startLog>>

\* what the finally block does: session.close(), and del session.info["ctx"]
\* once close has returned
FinallyCallsDelFirst(closeRaises) == <<"del", "close">>

FinallyCalls(closeRaises) ==
    IF closeRaises THEN <<"close">> ELSE <<"close", "del">>

\* the error that leaves the finalizer: the one raised in the finally block,
\* else the one pending from the try block
FinalizerErrorSwallowed(pendingErr, closeRaises) ==
    IF closeRaises THEN "closeError" ELSE NoError

FinalizerError(pendingErr, closeRaises) ==
    IF closeRaises THEN "closeError" ELSE pendingErr

\* the finally block of teardown_session; close returns or raises, and
\* the host goes on with the context's next callback
FinFinally(s, raises) ==
    /\ CanStep(s, "close")
    /\ LET calls == FinallyCalls(raises)
       IN  sessions' = [sessions EXCEPT
             ![s].trace = @ \o calls,
             ![s].inTx = IF raises THEN @ ELSE FALSE,
             ![s].info_ctx = IF Count(calls, "del") > 0 THEN FALSE ELSE @,
             ![s].err = FinalizerError(sessions[s].pendingErr, raises),
             ![s].fpc = "done"]
    /\ ctx' = Popped(sessions[s].ctx)
    /\ UNCHANGED <<cfg, status, self, published, executor, disposed, startLog>>

\* the host calls self.commit_executor.shutdown: no new submissions, and
\* the call returns when the submitted finalizers have finished
CallShutdown(c) ==
    /\ NextCallback(c)[1] = "shutdown"
    /\ ~LoopBlocked
    /\ executor' = [executor EXCEPT !.state = "shutdown"]
    /\ ctx' = InProgress(c, "shutdown")
    /\ UNCHANGED <<cfg, status, self, published, sessions, disposed, startLog>>

ShutdownReturnsNoWait(c) ==
    /\ ctx[c].current = "shutdown"
    /\ ctx' = Popped(c)
    /\ UNCHANGED <<cfg, status, self, published, executor, sessions, disposed, startLog>>

ShutdownReturns(c) ==
    /\ ctx[c].current = "shutdown"
    /\ OnWorker \cup Queued = {}
    /\ ctx' = Popped(c)
    /\ UNCHANGED <<cfg, status, self, published, executor, sessions, disposed, startLog>>

\* whether the rest of start disposes the bind
DisposesBindOnlyCreated(bind) ==
    bind.kind \in {"Engine", "AsyncEngine"} /\ bind.origin = "created"

DisposesBindAlways(bind) == TRUE

DisposesBind(bind) == bind.kind \in {"Engine", "AsyncEngine"}

\* how it does: self.bind.dispose() or await self.bind.dispose()
DisposeCall(bind) ==
    IF bind.kind = "AsyncEngine" THEN "await dispose" ELSE "dispose"

\* the rest of start, after its yield
CallDispose(c) ==
    /\ NextCallback(c)[1] = "dispose"
    /\ ~LoopBlocked
    /\ disposed' = IF DisposesBind(self.bind)
                    THEN Append(disposed, DisposeCall(self.bind)) ELSE disposed
    /\ ctx' = Popped(c)
    /\ UNCHANGED <<cfg, status, self, published, executor, sessions, startLog>>

\* ------------------------------------------------------- specifications
Next ==
    \/ Construct
    \/ Start
    \/ \E c \in Contexts : CreateSession(c)
    \/ \E s \in SessionIds : Begin(s)
    \/ \E c \in Contexts, exc \in {"None", "Error"} : CloseContext(c, exc)
    \/ \E c \in Contexts : CallFinalizer(c)
    \/ \E s \in SessionIds : WorkerStart(s)
    \/ \E s \in SessionIds, raises \in BOOLEAN : FinTry(s, raises)
    \/ \E s \in SessionIds, raises \in BOOLEAN : FinFinally(s, raises)
    \/ \E c \in Contexts : CallShutdown(c)
    \/ \E c \in Contexts : ShutdownReturns(c)
    \/ \E c \in Contexts : CallDispose(c)

\* commit_executor_workers: fewer workers than sessions, and as many
WorkerChoices == 1 .. 2

\* configurations for the session lifecycle: a synchronous and an
\* asynchronous engine built from a url
LifecycleConfigs ==
    { Config([form |-> "str", dialect |-> "postgresql", driver |-> d],
             NoBind, NoneDict, NoneDict, w, NoPool) :
        d \in {"psycopg2", "asyncpg"}, w \in WorkerChoices }

Init == InitWith(LifecycleConfigs)

Spec == Init /\ [][Next]_vars

\* the constructor and start over every configuration
InitConstruction == InitWith(AllConfigs)

NextConstruction == Construct \/ Start

SpecConstruction == InitConstruction /\ [][NextConstruction]_vars

\* start and the teardown of its context, for every url and every bind
ShutdownConfigs ==
    { Config(u, b, NoneDict, NoneDict, w, NoPool) :
        u \in Urls, b \in Binds, w \in WorkerChoices }

InitShutdown == InitWith(ShutdownConfigs)

NextShutdown ==
    \/ Construct
    \/ Start
    \/ \E exc \in {"None", "Error"} : CloseContext(0, exc)
    \/ CallShutdown(0)
    \/ ShutdownReturns(0)
    \/ CallDispose(0)

SpecShutdown == InitShutdown /\ [][NextShutdown]_vars

\* the steps of a teardown: the host calls the next callback of a context
\* that is ending, a worker takes a queued finalizer, a call made by a
\* finalizer returns or raises, shutdown returns
TeardownStep ==
    \/ \E c \in Contexts : CallFinalizer(c)
    \/ \E s \in SessionIds : WorkerStart(s)
    \/ \E s \in SessionIds, raises \in BOOLEAN : FinTry(s, raises)
    \/ \E s \in SessionIds, raises \in BOOLEAN : FinFinally(s, raises)
    \/ \E c \in Contexts : CallShutdown(c)
    \/ \E c \in Contexts : ShutdownReturns(c)
    \/ \E c \in Contexts : CallDispose(c)

\* the event loop and the workers keep running, and commit, rollback and
\* close each return or raise: a teardown step that stays possible is taken
SpecFair == Init /\ [][Next]_vars /\ WF_vars(TeardownStep)

\* ------------------------------------------------------------------ claims
Finalized(s) == sessions[s].fpc = "done"

\* the try block of the finalizer of s has been executed
TryDone(s) == sessions[s].fpc \in {"close", "done"}

Calls(s, x) == Count(sessions[s].trace, x)

\* C1: a session that is in a transaction when its finalizer runs is
\* committed and not rolled back when its context ended without an
\* exception, rolled back and not committed when it ended with one, and in
\* both cases close is called on it after that.
C1_CommitOrRollbackThenClose ==
    \A s \in SessionIds :
        (TryDone(s) /\ sessions[s].txAtFin = "True") =>
            /\ sessions[s].exception = "None" =>
                 (sessions[s].trace[1] = "commit" /\ Calls(s, "rollback") = 0)
            /\ sessions[s].exception # "None" =>
                 (sessions[s].trace[1] = "rollback" /\ Calls(s, "commit") = 0)
            /\ Finalized(s) => (Len(sessions[s].trace) >= 2 /\ sessions[s].trace[2] = "close")

\* C1 witness: one session committed and one rolled back, both closed.
C1_Witness ==
    \E s, t \in SessionIds :
        /\ Finalized(s) /\ sessions[s].txAtFin = "True"
        /\ sessions[s].exception = "None" /\ Calls(s, "commit") = 1
        /\ Finalized(t) /\ sessions[t].txAtFin = "True"
        /\ sessions[t].exception = "Error" /\ Calls(t, "rollback") = 1
        /\ Calls(s, "close") = 1 /\ Calls(t, "close") = 1

\* C2: a session that is not in a transaction when its finalizer runs is
\* neither committed nor rolled back, whatever the outcome of its context,
\* and close is still called on it.
C2_NoTransactionOnlyClose ==
    \A s \in SessionIds :
        (TryDone(s) /\ sessions[s].txAtFin = "False") =>
            /\ Calls(s, "commit") = 0
            /\ Calls(s, "rollback") = 0
            /\ Finalized(s) => sessions[s].trace[1] = "close"

\* C2 witness: sessions never used, finalized after a failed and after a
\* successful context.
C2_Witness ==
    \E s, t \in SessionIds :
        /\ Finalized(s) /\ sessions[s].txAtFin = "False" /\ sessions[s].exception = "Error"
        /\ Finalized(t) /\ sessions[t].txAtFin = "False" /\ sessions[t].exception = "None"
        /\ Calls(s, "close") = 1 /\ Calls(t, "close") = 1

\* the teardown callbacks registered for session s on context c
Registered(c, s) ==
    Count(ctx[c].callbacks, <<"session", s>>)

C4_AsClaimed ==
    \A s \in SessionIds :
        (Finalized(s) /\ sessions[s].pendingErr # NoError) =>
            /\ Calls(s, "close") = 1
            /\ ~sessions[s].info_ctx
            /\ sessions[s].err = sessions[s].pendingErr

\* C4, amended: when commit or rollback raised, close is still called;
\* when close returns, the "ctx" entry is removed and the error of commit
\* or rollback leaves the finalizer after that; when close raises too, the
\* "ctx" entry stays and the error of close leaves the finalizer.
C4_CleanupAfterFailedCommit ==
    \A s \in SessionIds :
        (Finalized(s) /\ sessions[s].pendingErr # NoError) =>
            /\ Calls(s, "close") = 1
            /\ sessions[s].trace[2] = "close"
            /\ \/ /\ sessions[s].trace = <<sessions[s].trace[1], "close", "del">>
                  /\ ~sessions[s].info_ctx
                  /\ sessions[s].err = sessions[s].pendingErr
                  /\ sessions[s].err = sessions[s].trace[1] \o "Error"
               \/ /\ sessions[s].trace = <<sessions[s].trace[1], "close">>
                  /\ sessions[s].info_ctx
                  /\ sessions[s].err = "closeError"

\* C4 witness: a commit that raised and a rollback that raised, each
\* followed by a close that returned.
C4_Witness ==
    \E s, t \in SessionIds :
        /\ Finalized(s) /\ sessions[s].err = "commitError" /\ ~sessions[s].info_ctx
        /\ Finalized(t) /\ sessions[t].err = "rollbackError" /\ ~sessions[t].info_ctx

\* the constructor has run
Built == status \in {"constructed", "started"}

Ended == status # "new"

FromUrl == cfg.bind.kind = "None" /\ cfg.url.form # "None"

CallsOf(fn) == Cardinality({ i \in 1 .. Len(self.calls) : self.calls[i].fn = fn })

\* C5: building from a url, create_async_engine is called first; with an
\* async-capable driver the bind is an AsyncEngine; with a driver that is
\* not, create_engine is then called with the same url, pool class and
\* engine arguments, the bind is a synchronous Engine, and the constructor
\* never raises InvalidRequestError.
C5_AsyncFirstThenSyncFallback ==
    (Ended /\ FromUrl) =>
        /\ self.calls[1].fn = "create_async_engine"
        /\ self.err # "InvalidRequestError"
        /\ DriverKind(cfg.url.driver) = "async" =>
             /\ Built
             /\ self.bind.kind = "AsyncEngine" /\ self.engine = "AsyncEngine"
             /\ CallsOf("create_engine") = 0
        /\ DriverKind(cfg.url.driver) = "sync" =>
             /\ Built
             /\ self.calls[2].fn = "create_engine"
             /\ self.calls[2].args = self.calls[1].args
             /\ self.bind.kind = "Engine" /\ self.engine = "Engine"

\* C5 witness: a synchronous driver with a pool class and engine
\* arguments, resolved to a synchronous engine by the fallback.
C5_Witness ==
    /\ Built /\ FromUrl
    /\ DriverKind(cfg.url.driver) = "sync"
    /\ cfg.poolclass.form = "str" /\ ~cfg.engine_args.none
    /\ self.bind.kind = "Engine"
    /\ CallsOf("create_async_engine") = 1 /\ CallsOf("create_engine") = 1

\* C6: when create_async_engine fails with anything but
\* InvalidRequestError, create_engine and sessionmaker are not called and
\* that failure is what the constructor raises; no constructor step is
\* called twice.
C6_OtherFailurePropagates ==
    /\ (Ended /\ FromUrl /\ DriverKind(cfg.url.driver) = "broken") =>
          /\ status = "raised"
          /\ self.err = "OtherError"
          /\ CallsOf("create_async_engine") = 1
          /\ CallsOf("create_engine") = 0
          /\ CallsOf("sessionmaker") = 0
    /\ \A fn \in {"create_async_engine", "create_engine", "sessionmaker",
                  "apply_sqlite_hacks"} : CallsOf(fn) <= 1

\* C6 witness: the constructor raised the failure of create_async_engine.
C6_Witness ==
    /\ status = "raised" /\ self.err = "OtherError"
    /\ Len(self.calls) = 1 /\ self.calls[1].fn = "create_async_engine"

BothAbsent == cfg.bind.kind = "None" /\ cfg.url.form = "None"

BothSupplied == cfg.bind.kind # "None" /\ cfg.url.form # "None"

\* C7: with url and bind both absent the constructor raises the
\* configuration error (TypeError), having called neither engine
\* constructor nor sessionmaker.
C7_BothAbsentRaisesFirst ==
    (Ended /\ BothAbsent) =>
        /\ status = "raised"
        /\ self.err = "TypeError"
        /\ self.calls = << >>

\* C7 witness: the configuration error was raised.
C7_Witness == status = "raised" /\ BothAbsent /\ self.err = "TypeError"

\* C8 as claimed: construction succeeds only when exactly one of url and
\* bind is supplied.
C8_AsClaimed ==
    Built => (cfg.bind.kind = "None") # (cfg.url.form = "None")

\* C8, amended: the configuration error is raised exactly when url and bind
\* are both absent; when both are supplied construction succeeds, the bind
\* is the supplied one, the url is ignored and no engine is constructed.
C8_BindTakesPrecedence ==
    Ended =>
        /\ (self.err = "TypeError") <=> BothAbsent
        /\ BothSupplied =>
             /\ Built
             /\ self.bind = cfg.bind
             /\ self.engine = cfg.bind.engine
             /\ CallsOf("create_async_engine") + CallsOf("create_engine") = 0

\* C8 witness: constructed with both a url and a bind.
C8_Witness == Built /\ BothSupplied /\ self.bind = cfg.bind

CallerArgs == OrEmpty(cfg.session_args)

AsyncBind == self.bind.kind \in {"AsyncEngine", "AsyncConnection"}

Factories == published \cap {"create_session", "create_async_session"}

\* the factory that makes sessions of class cls
FactoryFor(cls) ==
    IF cls = "AsyncSession" THEN "create_async_session" ELSE "create_session"

\* the session class the sessionmaker makes: class_, by default Session
ConfiguredClass ==
    IF "class_" \in DOMAIN self.sessionmaker
    THEN self.sessionmaker["class_"] ELSE "Session"

\* C9 as claimed: with an asynchronous bind the session class is
\* AsyncSession whatever the caller's session_args, and start publishes
\* create_async_session; with a synchronous one start publishes
\* create_session; the configured class agrees with the published factory.
C9_AsClaimed ==
    Built =>
        /\ AsyncBind => ConfiguredClass = "AsyncSession"
        /\ status = "started" =>
             /\ Factories = {IF AsyncBind THEN "create_async_session" ELSE "create_session"}
             /\ Factories = {FactoryFor(ConfiguredClass)}

\* C9, amended: the class of self.engine (for a supplied bind, of
\* bind.engine) alone decides the factory start publishes; a class_ the
\* caller supplied is kept; without one the session class is AsyncSession
\* for an AsyncEngine and the default otherwise, and then agrees with the
\* published factory.
C9_EngineSelectsFactory ==
    Built =>
        /\ status = "started" =>
             Factories = {IF self.engine = "AsyncEngine"
                          THEN "create_async_session" ELSE "create_session"}
        /\ "class_" \in DOMAIN CallerArgs =>
             /\ "class_" \in DOMAIN self.sessionmaker
             /\ ConfiguredClass = CallerArgs["class_"]
        /\ "class_" \notin DOMAIN CallerArgs =>
             /\ self.engine = "AsyncEngine" =>
                  ("class_" \in DOMAIN self.sessionmaker /\ ConfiguredClass = "AsyncSession")
             /\ self.engine # "AsyncEngine" => "class_" \notin DOMAIN self.sessionmaker
             /\ status = "started" => Factories = {FactoryFor(ConfiguredClass)}

\* C9 witness: started with an AsyncEngine and no class_ from the caller.
C9_Witness ==
    /\ status = "started" /\ self.engine = "AsyncEngine"
    /\ "class_" \notin DOMAIN CallerArgs
    /\ ConfiguredClass = "AsyncSession"
    /\ "create_async_session" \in published

\* the keyword arguments sessionmaker was called with
SessionmakerArgs == self.calls[Len(self.calls)].args.kw

\* C10: whatever session_args the caller supplied, sessionmaker is called
\* with expire_on_commit = False and future = True.
C10_ForcedSessionOptions ==
    Built =>
        /\ self.calls[Len(self.calls)].fn = "sessionmaker"
        /\ SessionmakerArgs["expire_on_commit"] = "False"
        /\ SessionmakerArgs["future"] = "True"
        /\ self.sessionmaker = SessionmakerArgs

\* C10 witness: the caller asked for expire_on_commit = True and
\* future = False.
C10_Witness ==
    /\ Built
    /\ DOMAIN CallerArgs = {"expire_on_commit", "future"}
    /\ CallerArgs["expire_on_commit"] = "True" /\ CallerArgs["future"] = "False"
    /\ SessionmakerArgs["expire_on_commit"] = "False"


\* the engine_args of the caller, and the keyword arguments the first
\* engine constructor was called with
CallerEngineArgs == OrEmpty(cfg.engine_args)

CallerConnectArgs ==
    IF "connect_args" \in DOMAIN CallerEngineArgs
    THEN CallerEngineArgs["connect_args"] ELSE EmptyDict

EngineKw == self.calls[1].args.kw

\* C11: for a sqlite url the connect_args passed to the engine constructor
\* hold check_same_thread = False unless the caller set check_same_thread,
\* whose value is then passed unchanged; the caller's other connect_args
\* and engine_args are preserved; for another dialect engine_args are
\* passed unchanged.
C11_SqliteThreadCheckDefault ==
    (Ended /\ FromUrl) =>
        /\ cfg.url.dialect # "sqlite" => EngineKw = CallerEngineArgs
        /\ cfg.url.dialect = "sqlite" =>
             /\ DOMAIN EngineKw = DOMAIN CallerEngineArgs \cup {"connect_args"}
             /\ \A k \in DOMAIN CallerEngineArgs \ {"connect_args"} :
                    EngineKw[k] = CallerEngineArgs[k]
             /\ DOMAIN EngineKw["connect_args"] =
                    DOMAIN CallerConnectArgs \cup {"check_same_thread"}
             /\ \A k \in DOMAIN CallerConnectArgs :
                    EngineKw["connect_args"][k] = CallerConnectArgs[k]
             /\ "check_same_thread" \notin DOMAIN CallerConnectArgs =>
                    EngineKw["connect_args"]["check_same_thread"] = "False"
        /\ \A i \in 1 .. Len(self.calls) :
              self.calls[i].fn \in {"create_async_engine", "create_engine"} =>
                  self.calls[i].args.kw = EngineKw

\* C11 witness: a sqlite engine built with the caller's
\* check_same_thread = True and timeout kept.
C11_Witness ==
    /\ Built /\ FromUrl /\ cfg.url.dialect = "sqlite"
    /\ DOMAIN CallerConnectArgs = {"check_same_thread", "timeout"}
    /\ CallerConnectArgs["check_same_thread"] = "True"
    /\ EngineKw["connect_args"] = CallerConnectArgs
    /\ CallsOf("create_engine") = 1


RootEnded == ctx[0].state = "closed"

\* C12: when the context of start has ended, a bind that is an engine has
\* been disposed exactly once, by a plain call for a synchronous Engine and
\* by an awaited call for an AsyncEngine; a bind that is a connection is
\* never disposed; nothing is disposed while the context of start is open.
C12_DisposeOnceAtTeardown ==
    /\ ctx[0].state = "open" => disposed = << >>
    /\ Len(disposed) <= 1
    /\ self.bind.kind \in {"Connection", "AsyncConnection"} => disposed = << >>
    /\ (status = "started" /\ RootEnded) =>
          /\ self.bind.kind = "Engine" => disposed = <<"dispose">>
          /\ self.bind.kind = "AsyncEngine" => disposed = <<"await dispose">>

\* C12 witness: an asynchronous engine built from a url, disposed by an
\* awaited call when the context of start has ended.
C12_Witness ==
    /\ status = "started" /\ RootEnded
    /\ self.bind.origin = "created"
    /\ disposed = <<"await dispose">>

\* C13 as claimed: only an engine the component constructed from a url is
\* disposed; a supplied bind, connection or engine, never is.
C13_AsClaimed ==
    self.bind.origin = "supplied" => disposed = << >>

\* C13, amended: a supplied connection is never disposed; a supplied
\* engine is disposed at shutdown exactly as an engine built from a url is.
C13_SuppliedEngineDisposedToo ==
    /\ self.bind.kind \in {"Connection", "AsyncConnection"} => disposed = << >>
    /\ (status = "started" /\ RootEnded /\ self.bind.kind \in {"Engine", "AsyncEngine"}) =>
          Len(disposed) = 1
    /\ (status = "started" /\ RootEnded /\ self.bind.origin = "supplied") =>
          (disposed # << >>) <=> (self.bind.kind \in {"Engine", "AsyncEngine"})

\* C13 witness: a supplied engine, disposed when the context of start has
\* ended.
C13_Witness ==
    /\ status = "started" /\ RootEnded
    /\ self.bind.origin = "supplied" /\ self.bind.kind = "Engine"
    /\ disposed = <<"dispose">>


\* the host has called the finalizer of s and it was not refused
Accepted(s) == sessions[s].fpc \in {"queued", "try", "close", "done"}

\* what the try block of the finalizer of s owes to the session, from the
\* outcome of the context of s alone
OwnOutcome(s) ==
    IF sessions[s].txAtFin = "False" THEN "None"
    ELSE IF ctx[sessions[s].ctx].exc = "None" THEN "commit" ELSE "rollback"

At(s, x) ==
    IF Calls(s, x) = 0 THEN 0
    ELSE CHOOSE i \in 1 .. Len(sessions[s].trace) : sessions[s].trace[i] = x

\* C15 as claimed: every finalizer that ended called commit or rollback
\* before close, removed the "ctx" entry after close, and left the session
\* without its "ctx" entry.
C15_AsClaimed ==
    \A s \in SessionIds :
        Finalized(s) =>
            /\ Calls(s, "close") = 1
            /\ \A x \in {"commit", "rollback"} : Calls(s, x) = 1 => At(s, x) < At(s, "close")
            /\ Calls(s, "del") = 1 /\ At(s, "close") < At(s, "del")
            /\ ~sessions[s].info_ctx

\* C15, amended: every finalizer that ended called commit or rollback, if
\* at all, before close, whether or not they raised; the "ctx" entry is
\* removed after close exactly when close returned, and when close raised
\* the finalizer ends with the session still carrying the entry.
C15_CloseThenRemoveUnlessCloseRaises ==
    \A s \in SessionIds :
        Finalized(s) =>
            /\ Calls(s, "close") = 1
            /\ \A x \in {"commit", "rollback"} : Calls(s, x) = 1 => At(s, x) < At(s, "close")
            /\ Calls(s, "del") = (IF sessions[s].err = "closeError" THEN 0 ELSE 1)
            /\ Calls(s, "del") = 1 => At(s, "del") = At(s, "close") + 1
            /\ sessions[s].info_ctx <=> (sessions[s].err = "closeError")
            /\ Len(sessions[s].trace) = At(s, "close") + Calls(s, "del")

\* C15 witness: a finalizer whose commit raised and whose close returned,
\* and a finalizer whose close raised.
C15_Witness ==
    \E s, t \in SessionIds :
        /\ Finalized(s) /\ sessions[s].pendingErr = "commitError"
        /\ sessions[s].trace = <<"commit", "close", "del">> /\ ~sessions[s].info_ctx
        /\ Finalized(t) /\ sessions[t].err = "closeError" /\ sessions[t].info_ctx


\* the sessions made by the synchronous factory
SyncSessions == { s \in SessionIds : ~sessions[s].async }

ExecutorDown == executor # NoExecutor /\ executor.state = "shutdown"

\* C16 as claimed: no finalizer is ever refused by the commit executor, and
\* once the executor is shut down no session of any context is left with a
\* finalizer that has not been dispatched.
C16_AsClaimed ==
    \A s \in SyncSessions :
        /\ sessions[s].fpc # "rejected"
        /\ ExecutorDown => sessions[s].fpc # "registered"

\* C16, amended: the finalizers of the sessions of the component's own
\* context have all been dispatched and have finished when the executor is
\* shut down, and none of them is refused; shutdown returns only when every
\* finalizer the executor accepted has finished; a finalizer is refused
\* only for a session of another context, called after the shutdown, and
\* then none of its body runs.
C16_OwnContextFinalizersBeforeShutdown ==
    /\ \A s \in SyncSessions :
          sessions[s].ctx = 0 =>
              /\ sessions[s].fpc # "rejected"
              /\ ExecutorDown => Finalized(s)
    /\ (ExecutorDown /\ ~LoopBlocked) => OnWorker \cup Queued = {}
    /\ \A s \in SessionIds :
          sessions[s].fpc = "rejected" =>
              /\ ~sessions[s].async /\ sessions[s].ctx # 0 /\ ExecutorDown
              /\ sessions[s].trace = << >> /\ sessions[s].err = "RuntimeError"

\* C16 witness: the executor is shut down after the finalizer of a session
\* of the component's context has committed and closed it, and the
\* finalizer of a session of another context was refused afterwards.
C16_Witness ==
    \E s, t \in SyncSessions :
        /\ ExecutorDown /\ ~LoopBlocked
        /\ sessions[s].ctx = 0 /\ Finalized(s) /\ Calls(s, "commit") = 1
        /\ sessions[t].ctx # 0 /\ sessions[t].fpc = "rejected"


\* the place of step x in what start did, 0 when start did not do it
StepAt(x) ==
    IF ~HasStep(startLog, x) THEN 0
    ELSE CHOOSE i \in 1 .. Len(startLog) : startLog[i] = x

SyncMode == Built /\ self.engine # "AsyncEngine"

BodyEntered(s) == sessions[s].fpc \in {"try", "close", "done"}

\* C18: a session of the synchronous factory whose context is open has
\* had none of its finalizer body executed; the body is entered only on a
\* worker of the commit executor, after the context began its teardown,
\* never on the event loop; and the finalizers executing at once are never
\* more than commit_executor_workers.
C18_FinalizerBodyOnWorker ==
    /\ \A s \in SyncSessions :
          /\ ctx[sessions[s].ctx].state = "open" =>
                (sessions[s].fpc = "registered" /\ sessions[s].trace = << >>
                 /\ sessions[s].txAtFin = "unset" /\ sessions[s].info_ctx)
          /\ ~BodyEntered(s) => (sessions[s].trace = << >> /\ sessions[s].thread = "None")
          /\ BodyEntered(s) => sessions[s].thread = "worker"
    /\ SyncSessions # {} =>
          Cardinality({ s \in SyncSessions : sessions[s].fpc \in {"try", "close"} })
              <= cfg.commit_executor_workers

\* C18 witness: one worker, busy with the finalizer of one session while
\* the finalizer of another waits in the queue of the executor.
C18_Witness ==
    \E s, t \in SyncSessions :
        /\ cfg.commit_executor_workers = 1
        /\ sessions[s].fpc \in {"try", "close"} /\ sessions[s].thread = "worker"
        /\ sessions[t].fpc = "queued"


\* C19 as claimed: when the context of a session has finished its
\* teardown, the finalizer of the session has finished and close was
\* called on the session.
C19_AsClaimed ==
    \A s \in SessionIds :
        ctx[sessions[s].ctx].state = "closed" => (Finalized(s) /\ Calls(s, "close") = 1)

\* C19, amended: once a context ends, its teardown eventually finishes (a
\* context ends once, so that in the end none is in teardown); and when
\* the teardown of the context of a session has finished, the finalizer of
\* the session has finished with close called, unless the commit executor
\* refused it because it was already shut down.
C19_TeardownCompletes ==
    /\ <>[](\A c \in Contexts : ctx[c].state # "closing")
    /\ [](\A s \in SessionIds :
            ctx[sessions[s].ctx].state = "closed" =>
                \/ Finalized(s) /\ Calls(s, "close") = 1
                \/ sessions[s].fpc = "rejected" /\ ExecutorDown /\ sessions[s].ctx # 0)

\* C19 witness: both contexts have finished their teardown, one with an
\* exception, and the sessions of both are closed.
C19_Witness ==
    \E s, t \in SessionIds :
        /\ sessions[s].ctx # sessions[t].ctx
        /\ ctx[sessions[s].ctx].state = "closed" /\ ctx[sessions[s].ctx].exc = "Error"
        /\ ctx[sessions[t].ctx].state = "closed" /\ ctx[sessions[t].ctx].exc = "None"
        /\ Finalized(s) /\ Calls(s, "close") = 1
        /\ Finalized(t) /\ Calls(t, "close") = 1


EngineDisposed == disposed # << >>

\* C20 as claimed: when the engine has been disposed, every session made
\* by the component, for whichever context, has been closed by its
\* finalizer.
C20_AsClaimed ==
    EngineDisposed =>
        \A s \in SessionIds : Finalized(s) /\ Calls(s, "close") = 1

\* C20, amended: when the engine has been disposed, every session made for
\* the component's own context has been closed by its finalizer; the
\* engine is disposed at most once; and in synchronous mode the commit
\* executor is shut down only after the engine was disposed, so that the
\* order at the teardown of the component's context is finalizers,
\* disposal, shutdown.
C20_OwnSessionsClosedBeforeDispose ==
    /\ Len(disposed) <= 1
    /\ EngineDisposed =>
          /\ ctx[0].state # "open"
          /\ \A s \in SessionIds :
                sessions[s].ctx = 0 => (Finalized(s) /\ Calls(s, "close") = 1)
    /\ ExecutorDown => EngineDisposed
    /\ (ctx[0].state = "closed" /\ status = "started") =>
          (EngineDisposed /\ (SyncMode => ExecutorDown))

\* C20 witness: synchronous mode, the component's context has finished its
\* teardown: its session was committed and closed, the engine disposed and
\* the executor shut down.
C20_Witness ==
    /\ SyncMode /\ ctx[0].state = "closed"
    /\ disposed = <<"dispose">> /\ ExecutorDown
    /\ \E s \in SessionIds :
          sessions[s].ctx = 0 /\ Finalized(s) /\ Calls(s, "commit") = 1

====
